---- MODULE Spec2Model ----
(***************************************************************************)
(* Model of marauder's GPU tile picking: gl_helpers.rs (the calls made on  *)
(* the graphics context), mesh.rs (Mesh) and tile_picker.rs (TilePicker).  *)
(* The graphics context is a mock resource layer: it counts buffer and     *)
(* program names, remembers what is bound, and holds a small framebuffer.  *)
(***************************************************************************)
EXTENDS Integers, Sequences, FiniteSets, TLC

VARIABLES gl, mesh, made, picker, op, calls, result, pure

vars == <<gl, mesh, made, picker, op, calls, result, pure>>

(* ------------------------------ bounds --------------------------------- *)

\* buffer names the context hands out to free-standing Meshes in one run
MaxBufs == 3
\* Mesh instances created (and destroyed) one after another in one run
MaxMeshes == 2
\* cleanup_opengl calls made by the owner of a TilePicker
MaxCleanups == 1
\* faces of the vertex data given to a free-standing Mesh
MaxFaces == 2
\* width of the one-row maps given to TilePicker::init
MaxMapW == 2
\* map sizes given to build_hex_map_mesh on its own
MaxPureMap == 3
\* window heights given to new and set_win_size
MaxWinH == 2
\* largest tile coordinate whose encoding is decoded again
MaxCoord == 254

(* ------------------------- Float (IEEE single) -------------------------- *)

RECURSIVE Pow2(_)
Pow2(n) == IF n = 0 THEN 1 ELSE 2 * Pow2(n - 1)

\* A Float is 0 or m / 2^e with 2^23 <= m < 2^24.
MantBits == 24
ByteMax == 255
SplitBits == MantBits \div 2
Split == Pow2(SplitBits)

FloatZero == [m |-> 0, e |-> 0]
FloatOne == [m |-> Pow2(MantBits - 1), e |-> MantBits - 1]

\* long division n / d, one quotient bit a step, until the quotient has
\* MantBits bits; q is the quotient so far, r the remainder, e the scale
\* (the next q and r are bound, so that each is evaluated once)
RECURSIVE DivBits(_, _, _, _)
DivBits(q, r, e, d) ==
    IF q >= Pow2(MantBits - 1)
    THEN [q |-> q, r |-> r, e |-> e]
    ELSE CHOOSE s \in {DivBits(q1, r1, e + 1, d) :
                          q1 \in {2 * q + (IF 2 * r >= d THEN 1 ELSE 0)},
                          r1 \in {IF 2 * r >= d THEN 2 * r - d ELSE 2 * r}} : TRUE

\* `n as Float / d`: the quotient rounded to nearest (d is odd: no ties)
FloatDiv(n, d) ==
    IF n = 0 THEN FloatZero
    ELSE LET s == DivBits(n \div d, n % d, 0, d)
             up == IF 2 * s.r > d THEN s.q + 1 ELSE s.q
         IN IF up = Pow2(MantBits)
            THEN [m |-> Pow2(MantBits - 1), e |-> s.e - 1]
            ELSE [m |-> up, e |-> s.e]

\* c >= 1.0
FloatGeOne(c) == c.m # 0 /\ c.e < MantBits

\* The framebuffer's conversion of a colour channel to an unsigned byte:
\* clamp to [0, 1], then round(c * 255).  m * 255 is split in two halves to
\* stay inside 32-bit integers: m * 255 = a * 2^12 + (a remainder < 2^12); c < 1 has e >= 24.
ToByte(c) ==
    IF c.m = 0 THEN 0
    ELSE IF FloatGeOne(c) THEN ByteMax
    ELSE LET hi == c.m \div Split
             lo == c.m % Split
             a == hi * ByteMax + (lo * ByteMax) \div Split
             scale == Pow2(c.e - SplitBits)
         IN (a + scale \div 2) \div scale

(* ------------------------------ values ---------------------------------- *)

None == [some |-> FALSE]
Some(v) == [some |-> TRUE, v |-> v]

\* Vec2 / MapPos / Size2
Vec2(x, y) == [x |-> x, y |-> y]
Size2(w, h) == [w |-> w, h |-> h]
Color3(r, g, b) == [r |-> r, g |-> g, b |-> b]

(* --------------------- collaborators (map.rs, geom.rs) ------------------ *)

\* MapPosIter::new(map_size): every position of the map, row by row
MapPosIter(map_size) ==
    [i \in 1..(map_size.w * map_size.h) |->
        Vec2((i - 1) % map_size.w, (i - 1) \div map_size.w)]

\* Geom::map_pos_to_world_pos and Geom::index_to_hex_vertex are kept symbolic:
\* a vertex is the centre it belongs to plus the offset added to it
map_pos_to_world_pos(tile_pos) == [centre_of |-> tile_pos]
index_to_hex_vertex(num) == [corner |-> num]
Vec3Zero == [corner |-> -1]
VecAdd(pos3d, offset) == [at |-> pos3d, plus |-> offset]

(* --------------------------- tile_picker.rs ----------------------------- *)

HexEdges == 6

\* the colour that encodes a tile (tile_picker.rs lines 38-40)
EncodeColor_Div256(tile_pos) ==
    Color3(FloatDiv(tile_pos.x, ByteMax + 1),
           FloatDiv(tile_pos.y, ByteMax + 1), FloatOne)

EncodeColor_GreenFromX(tile_pos) ==
    Color3(FloatDiv(tile_pos.x, ByteMax), FloatDiv(tile_pos.x, ByteMax), FloatOne)

EncodeColor(tile_pos) ==
    Color3(FloatDiv(tile_pos.x, ByteMax), FloatDiv(tile_pos.y, ByteMax), FloatOne)

\* the body of the inner loop: three vertices and three colours pushed
PushTriangle(acc, tile_pos, num) ==
    LET pos3d == map_pos_to_world_pos(tile_pos)
        vertex == index_to_hex_vertex(num)
        next_vertex == index_to_hex_vertex(num + 1)
        color == EncodeColor(tile_pos)
    IN [v_data |-> acc.v_data \o <<VecAdd(pos3d, vertex),
                                   VecAdd(pos3d, next_vertex),
                                   VecAdd(pos3d, Vec3Zero)>>,
        c_data |-> acc.c_data \o <<color, color, color>>]

RECURSIVE EdgeLoop(_, _, _)
EdgeLoop(acc, tile_pos, num) ==
    IF num >= HexEdges THEN acc
    ELSE CHOOSE r \in {EdgeLoop(a, tile_pos, num + 1) :
                          a \in {PushTriangle(acc, tile_pos, num)}} : TRUE

RECURSIVE TileLoop(_, _, _)
TileLoop(acc, tiles, i) ==
    IF i > Len(tiles) THEN acc
    ELSE CHOOSE r \in {TileLoop(a, tiles, i + 1) :
                          a \in {EdgeLoop(acc, tiles[i], 0)}} : TRUE

build_hex_map_mesh(map_size) ==
    CHOOSE r \in {TileLoop([v_data |-> <<>>, c_data |-> <<>>], tiles, 1) :
                     tiles \in {MapPosIter(map_size)}} : TRUE

\* the decision at the end of read_coords_from_image_buffer; data is the
\* four bytes R, G, B, A (data[0..3] in the source, 1..4 here)
DecodePixel(data) ==
    IF data[3] # 0 THEN Some(Vec2(data[1], data[2])) ELSE None

\* a colour as the framebuffer stores it: four bytes, alpha last
ColorBytes(color, alpha) ==
    <<ToByte(color.r), ToByte(color.g), ToByte(color.b), ToByte(alpha)>>

(* ------------------------ the graphics context -------------------------- *)

\* name 0 is "no buffer" / "no program"; GetAttribLocation and
\* GetUniformLocation answer -1 for a name the program does not have
NoName == 0
NoLoc == 0 - 1

\* names: 0, the other component's 1, and those handed out later (a Mesh
\* takes one buffer per call; the TilePicker's init takes two buffers and
\* one program)
BufNames == 0..(1 + (IF MaxBufs > 2 THEN MaxBufs ELSE 2))
ProgNames == 0..2
AttrLocs == {0, 1}

\* the window is two pixels wide
Columns == {0, 1}
WinW == Cardinality(Columns)

\* pixels of a window of height h: <<column, row>>, row 0 at the bottom
Pixels(h) == Columns \X (0..(h - 1))

\* framebuffer content left by earlier work: its colours are not known
Stale == [src |-> "stale"]
\* a triangle whose vertices were fetched from beyond the end of a buffer
Garbage == [src |-> "garbage"]

\* what ReadPixels may deliver where the content is undefined
UndefBytes == {<<0, 0, 0, 0>>, <<1, 0, ByteMax, ByteMax>>}

\* names a linked program answers for (pick.vs.glsl for the picking program;
\* the other component's program has "position" and "color")
AttribLocation(g, program, name) ==
    IF program \notin g.progLive THEN NoLoc
    ELSE IF g.progKind[program] = "pick"
         THEN (IF name = "in_vertex_coordinates" THEN 0
               ELSE IF name = "color" THEN 1 ELSE NoLoc)
         ELSE (IF name = "position" THEN 0
               ELSE IF name = "color" THEN 1 ELSE NoLoc)

UniformLocation(g, program, name) ==
    IF program \in g.progLive /\ name = "mvp_mat" THEN 0 ELSE NoLoc

\* the colour of triangle k (vertices 3k-2 .. 3k) of a draw: fetched from the
\* buffer the "color" attribute points at; beyond the end of that buffer, or
\* with no live program in use, what is drawn is undefined
FetchTriangle(g, k) ==
    LET b == g.attr[1]
        data == IF b \in g.bufLive THEN g.bufData[b] ELSE <<>>
    IN IF g.program \in g.progLive /\ 3 * k <= Len(data)
          /\ data[3 * k - 2] = data[3 * k] /\ data[3 * k - 1] = data[3 * k]
       THEN [src |-> "tri", tri |-> k, color |-> data[3 * k]]
       ELSE Garbage

\* one call on the context
Apply(g, k) ==
    CASE k.op = "GenBuffers" ->
           [g EXCEPT !.bufGen = @ + 1, !.bufLive = @ \cup {g.bufGen + 1}]
      [] k.op = "DeleteBuffers" ->
           [g EXCEPT !.bufDel[k.id] = @ + 1,
                     !.bufLive = @ \ {k.id},
                     !.bound = IF @ = k.id THEN NoName ELSE @]
      [] k.op = "BindBuffer" -> [g EXCEPT !.bound = k.id]
      [] k.op = "BufferData" ->
           IF g.bound \in g.bufLive
           THEN [g EXCEPT !.bufData[g.bound] = k.data] ELSE g
      [] k.op = "VertexAttribPointer" ->
           IF k.index \in AttrLocs
           THEN [g EXCEPT !.attr[k.index] = g.bound] ELSE g
      [] k.op = "EnableVertexAttribArray" ->
           IF k.index \in AttrLocs
           THEN [g EXCEPT !.enabled = @ \cup {k.index}] ELSE g
      [] k.op = "CreateProgram" ->
           [g EXCEPT !.progGen = @ + 1, !.progLive = @ \cup {g.progGen + 1}]
      [] k.op = "DeleteProgram" ->
           [g EXCEPT !.progDel[k.id] = @ + 1, !.progLive = @ \ {k.id}]
      [] k.op = "UseProgram" ->
           IF k.id = NoName \/ k.id \in g.progLive
           THEN [g EXCEPT !.program = k.id] ELSE g
      [] k.op = "UniformMatrix4fv" ->
           IF g.program \in g.progLive /\ k.location = 0
           THEN [g EXCEPT !.mvp[g.program] = k.mat] ELSE g
      [] k.op = "ClearColor" -> [g EXCEPT !.clearColor = k.color]
      [] k.op = "Clear" ->
           [g EXCEPT !.fb = [p \in DOMAIN g.fb |->
                                [src |-> "clear", color |-> g.clearColor]]]
      [] k.op = "DrawArrays" ->
           [g EXCEPT !.fb = [p \in DOMAIN g.fb |->
                IF k.raster[p] \in 1..(k.count \div 3)
                THEN FetchTriangle(g, k.raster[p]) ELSE g.fb[p]]]
      [] OTHER -> g

\* the four bytes glReadPixels writes for the pixel (x, y): the pixel's
\* colour where it is a pixel of the window whose content is known, and
\* undefined bytes (undef) anywhere else
ReadPixel(g, x, y, undef) ==
    IF <<x, y>> \in DOMAIN g.fb /\ g.fb[<<x, y>>].src \in {"clear", "tri"}
    THEN IF g.fb[<<x, y>>].src = "clear"
         THEN ColorBytes(g.fb[<<x, y>>].color, g.fb[<<x, y>>].color.a)
         ELSE ColorBytes(g.fb[<<x, y>>].color, FloatOne)
    ELSE undef

(* ---------------------------- gl_helpers.rs ----------------------------- *)

\* a handler threads c = [gl, log]: the context, and the calls made so far
\* (c and k are evaluated once each, by binding them)
Call(c, k) ==
    CHOOSE r \in {[gl |-> Apply(v.gl, w), log |-> Append(v.log, w)] :
                     v \in {c}, w \in {k}} : TRUE

gen_buffer(c) == Call(c, [op |-> "GenBuffers", n |-> 1])
\* the name gen_buffer returns
NewBuffer(c) == c.gl.bufGen + 1

delete_buffer(c, buffer) == Call(c, [op |-> "DeleteBuffers", n |-> 1, id |-> buffer])

bind_buffer(c, buffer) ==
    Call(c, [op |-> "BindBuffer", target |-> "ARRAY_BUFFER", id |-> buffer])

fill_buffer(c, buffer_size, data) ==
    Call(c, [op |-> "BufferData", target |-> "ARRAY_BUFFER",
             size |-> buffer_size, data |-> data, usage |-> "STATIC_DRAW"])

\* size_of::<VertexCoord>() and size_of::<Color3>(): three 4-byte floats
fill_current_coord_vbo(c, data) == fill_buffer(c, Len(data) * (3 * 4), data)
fill_current_color_vbo(c, data) == fill_buffer(c, Len(data) * (3 * 4), data)

get_attr(c, shader, name) ==
    Call(c, [op |-> "GetAttribLocation", program |-> shader, name |-> name])

get_uniform(c, shader, name) ==
    Call(c, [op |-> "GetUniformLocation", program |-> shader, name |-> name])

vertex_attrib_pointer(c, attr, components_count) ==
    Call(c, [op |-> "VertexAttribPointer", index |-> attr,
             size |-> components_count, type |-> "FLOAT", stride |-> 0])

enable_vertex_attrib_array(c, attr) ==
    Call(c, [op |-> "EnableVertexAttribArray", index |-> attr])

use_program(c, shader) == Call(c, [op |-> "UseProgram", id |-> shader])

delete_program(c, shader) == Call(c, [op |-> "DeleteProgram", id |-> shader])

uniform_mat4f(c, mat_id, mat) ==
    Call(c, [op |-> "UniformMatrix4fv", location |-> mat_id, count |-> 1, mat |-> mat])

set_clear_color(c, r, g, b) ==
    Call(c, [op |-> "ClearColor", color |-> [r |-> r, g |-> g, b |-> b, a |-> FloatOne]])

clear(c) == Call(c, [op |-> "Clear", mask |-> {"COLOR_BUFFER_BIT", "DEPTH_BUFFER_BIT"}])

\* raster: for each pixel, the triangle of this draw that ends up on it (0: none)
draw_mesh(c, faces_count, raster) ==
    Call(c, [op |-> "DrawArrays", mode |-> "TRIANGLES", first |-> 0,
             count |-> faces_count * 3, raster |-> raster])

\* the vertex and fragment shader are compiled, linked into a new program,
\* and marked for deletion; the sources are taken to compile and link
compile_program(c) ==
    LET c1 == Call(c, [op |-> "CreateShader", type |-> "VERTEX_SHADER"])
        c2 == Call(c1, [op |-> "CreateShader", type |-> "FRAGMENT_SHADER"])
        c3 == Call(c2, [op |-> "CreateProgram"])
        c4 == Call(c3, [op |-> "LinkProgram", id |-> c.gl.progGen + 1])
        c5 == Call(c4, [op |-> "DeleteShader", type |-> "FRAGMENT_SHADER"])
    IN Call(c5, [op |-> "DeleteShader", type |-> "VERTEX_SHADER"])
\* the name compile_program returns
NewProgram(c) == c.gl.progGen + 1

(* -------------------------------- mesh.rs ------------------------------- *)

\* a Mesh handler gives back the context and the Mesh: [ctx, mesh]
Mesh_new == [vbo |-> NoName, color_vbo |-> None, len |-> 0]

Mesh_init(c, m, data) ==
    LET vbo == NewBuffer(c)
        c1 == gen_buffer(c)
        c2 == bind_buffer(c1, vbo)
    IN [ctx |-> fill_current_coord_vbo(c2, data),
        mesh |-> [m EXCEPT !.len = Len(data), !.vbo = vbo]]

Mesh_set_color(c, m, data) ==
    LET color_vbo == NewBuffer(c)
        c1 == gen_buffer(c)
        c2 == bind_buffer(c1, color_vbo)
    IN [ctx |-> fill_current_color_vbo(c2, data),
        mesh |-> [m EXCEPT !.len = Len(data), !.color_vbo = Some(color_vbo)]]

Mesh_draw(c, m, program, raster) ==
    LET c1 == IF m.color_vbo.some
              THEN LET b1 == bind_buffer(c, m.color_vbo.v)
                       b2 == get_attr(b1, program, "color")
                   IN vertex_attrib_pointer(
                          b2, AttribLocation(b1.gl, program, "color"), 3)
              ELSE c
        c2 == bind_buffer(c1, m.vbo)
        c3 == get_attr(c2, program, "position")
        c4 == vertex_attrib_pointer(
                  c3, AttribLocation(c2.gl, program, "position"), 3)
    IN [ctx |-> draw_mesh(c4, m.len, raster), mesh |-> m]

\* Drop for Mesh
Mesh_drop(c, m) == delete_buffer(c, m.vbo)

(* ------------------------------ rasteriser ------------------------------ *)

\* The triangles a draw of `count` vertices may leave on a pixel, sampled:
\* the first and the last triangle held by the buffer (`held` vertices) and,
\* if the draw goes beyond the buffer, the first triangle beyond it.
ProbeTriangles(count, held) ==
    {k \in 1..(count \div 3) :
        \/ (k = 1 /\ 3 * k <= held)
        \/ k = held \div 3
        \/ k = (held \div 3) + 1}

\* The outcomes of rasterising considered: nothing drawn on any pixel, or
\* one triangle drawn on every pixel.
Rasters(h, count, held) ==
    {[p \in Pixels(h) |-> 0]}
    \cup {[p \in Pixels(h) |-> k] : k \in ProbeTriangles(count, held)}

(* ------------------------------- the state ------------------------------ *)

\* The context starts with what another component of the program made: one
\* buffer (name 1) and one linked program (name 1), and a frame it drew.
Init ==
    /\ gl = [bufGen |-> 1, bufLive |-> {1},
             bufDel |-> [b \in BufNames |-> 0],
             bufData |-> [b \in BufNames |-> <<>>],
             bound |-> NoName,
             progGen |-> 1, progLive |-> {1},
             progKind |-> [q \in ProgNames |-> IF q = 1 THEN "main" ELSE "pick"],
             progDel |-> [q \in ProgNames |-> 0],
             program |-> NoName,
             attr |-> [a \in AttrLocs |-> NoName],
             enabled |-> {},
             mvp |-> [q \in ProgNames |-> "unset"],
             clearColor |-> [r |-> FloatZero, g |-> FloatZero,
                             b |-> FloatZero, a |-> FloatZero],
             winH |-> MaxWinH,
             fb |-> [p \in Pixels(MaxWinH) |-> Stale]]
    /\ mesh = None
    /\ made = <<>>
    /\ picker = None
    /\ op = [name |-> "start"]
    /\ calls = <<>>
    /\ result = None
    /\ pure = [stage |-> "idle"]

Ctx == [gl |-> gl, log |-> <<>>]

\* vertex data of a free-standing Mesh: n distinct vertices, n colours
VertexData(n) == [i \in 1..n |-> [vertex |-> i]]
ColorData(n) == [i \in 1..n |-> Color3(FloatOne, FloatZero, FloatZero)]
VertexCounts == {3 * f : f \in 1..MaxFaces}

(* ---------------------- a free-standing Mesh in use --------------------- *)

\* made[i]: the buffer names the i-th Mesh instance was given by init (pos)
\* and by set_color (col)
MeshNew ==
    /\ ~mesh.some
    /\ Len(made) < MaxMeshes
    /\ mesh' = Some(Mesh_new)
    /\ made' = Append(made, [pos |-> {}, col |-> {}])
    /\ op' = [name |-> "Mesh::new"]
    /\ calls' = <<>>
    /\ UNCHANGED <<gl, picker, result, pure>>

MeshInit(n) ==
    /\ mesh.some
    /\ gl.bufGen < 1 + MaxBufs
    /\ \E r \in {Mesh_init(Ctx, mesh.v, VertexData(n))} :
          /\ gl' = r.ctx.gl
          /\ calls' = r.ctx.log
          /\ mesh' = Some(r.mesh)
          /\ made' = [made EXCEPT ![Len(made)].pos = @ \cup {r.mesh.vbo}]
    /\ op' = [name |-> "Mesh::init", n |-> n]
    /\ UNCHANGED <<picker, result, pure>>

MeshSetColor(n) ==
    /\ mesh.some
    /\ gl.bufGen < 1 + MaxBufs
    /\ \E r \in {Mesh_set_color(Ctx, mesh.v, ColorData(n))} :
          /\ gl' = r.ctx.gl
          /\ calls' = r.ctx.log
          /\ mesh' = Some(r.mesh)
          /\ made' = [made EXCEPT ![Len(made)].col = @ \cup {r.mesh.color_vbo.v}]
    /\ op' = [name |-> "Mesh::set_color", n |-> n]
    /\ UNCHANGED <<picker, result, pure>>

\* the vertices held by the buffer a Mesh draws from
Held(g, m) == IF m.vbo \in g.bufLive THEN Len(g.bufData[m.vbo]) ELSE 0

MeshDraw(program) ==
    /\ mesh.some
    /\ \E raster \in Rasters(gl.winH, 3 * mesh.v.len, Held(gl, mesh.v)) :
         \E r \in {Mesh_draw(Ctx, mesh.v, program, raster)} :
            /\ gl' = r.ctx.gl
            /\ calls' = r.ctx.log
    /\ op' = [name |-> "Mesh::draw", program |-> program]
    /\ UNCHANGED <<mesh, made, picker, result, pure>>

MeshDrop ==
    /\ mesh.some
    /\ \E c \in {Mesh_drop(Ctx, mesh.v)} :
          gl' = c.gl /\ calls' = c.log
    /\ mesh' = None
    /\ op' = [name |-> "Mesh::drop"]
    /\ UNCHANGED <<made, picker, result, pure>>

\* Another component renders a frame: it leaves its own buffer bound, its
\* own program in use, and its own picture in the framebuffer.
OtherComponent ==
    /\ \E c2 \in {use_program(bind_buffer(Ctx, 1), 1)} :
          /\ gl' = [c2.gl EXCEPT !.fb = [p \in DOMAIN gl.fb |-> Stale]]
          /\ calls' = c2.log
    /\ op' = [name |-> "other"]
    /\ UNCHANGED <<mesh, made, picker, result, pure>>

NextMesh ==
    \/ MeshNew
    \/ \E n \in VertexCounts : MeshInit(n)
    \/ \E n \in VertexCounts : MeshSetColor(n)
    \/ \E program \in {1} : MeshDraw(program)
    \/ MeshDrop
    \/ OtherComponent

SpecMesh == Init /\ [][NextMesh]_vars

(* ------------------------- tile_picker.rs: TilePicker ------------------- *)

TilePicker_new(win_size) ==
    [program |-> NoName, map_mesh |-> Mesh_new, mat_id |-> 0,
     win_size |-> win_size]

set_win_size_Keep(p, win_size) == p

set_win_size(p, win_size) == [p EXCEPT !.win_size = win_size]

cleanup_opengl(c, p) == delete_program(c, p.program)

\* gives back [ctx, picker]; Mesh::set_vertex_coords is Mesh::init of mesh.rs
TilePicker_init(c, p, map_size) ==
    LET program == NewProgram(c)
        c1 == compile_program(c)
        c2 == use_program(c1, program)
        c3 == get_attr(c2, program, "in_vertex_coordinates")
        position_attr == AttribLocation(c2.gl, program, "in_vertex_coordinates")
        c4 == get_attr(c3, program, "color")
        color_attr == AttribLocation(c3.gl, program, "color")
        c5 == enable_vertex_attrib_array(c4, position_attr)
        c6 == enable_vertex_attrib_array(c5, color_attr)
        c7 == vertex_attrib_pointer(c6, position_attr, 3)
        c8 == vertex_attrib_pointer(c7, color_attr, 3)
        built == build_hex_map_mesh(map_size)
        r1 == Mesh_init(c8, p.map_mesh, built.v_data)
        r2 == Mesh_set_color(r1.ctx, r1.mesh, built.c_data)
        c9 == get_uniform(r2.ctx, program, "mvp_mat")
    IN [ctx |-> c9,
        picker |-> [p EXCEPT !.program = program,
                             !.map_mesh = r2.mesh,
                             !.mat_id = UniformLocation(r2.ctx.gl, program, "mvp_mat")]]

\* gives back [ctx, data, ret]: the bytes read and the Option<MapPos>
read_coords_from_image_buffer(c, p, mouse_pos, undef) ==
    LET height == p.win_size.h
        reverted_y == height - mouse_pos.y
        c1 == Call(c, [op |-> "ReadPixels", x |-> mouse_pos.x, y |-> reverted_y,
                       width |-> 1, height |-> 1,
                       format |-> "RGBA", type |-> "UNSIGNED_BYTE"])
        data == ReadPixel(c.gl, mouse_pos.x, reverted_y, undef)
    IN [ctx |-> c1, data |-> data, ret |-> DecodePixel(data)]

pick_tile_ClearAfterDraw(c, p, camera, mouse_pos, raster, undef) ==
    LET c1 == use_program(c, p.program)
        c2 == uniform_mat4f(c1, p.mat_id, camera)
        r == Mesh_draw(c2, p.map_mesh, p.program, raster)
        rd == read_coords_from_image_buffer(r.ctx, p, mouse_pos, undef)
        c3 == set_clear_color(rd.ctx, FloatZero, FloatZero, FloatZero)
    IN [rd EXCEPT !.ctx = clear(c3)]

pick_tile(c, p, camera, mouse_pos, raster, undef) ==
    LET c1 == use_program(c, p.program)
        c2 == uniform_mat4f(c1, p.mat_id, camera)
        c3 == set_clear_color(c2, FloatZero, FloatZero, FloatZero)
        c4 == clear(c3)
        r == Mesh_draw(c4, p.map_mesh, p.program, raster)
    IN read_coords_from_image_buffer(r.ctx, p, mouse_pos, undef)

\* Drop for TilePicker, and then the drop of its field map_mesh
TilePicker_drop(c, p) == Mesh_drop(cleanup_opengl(c, p), p.map_mesh)

(* --------------------------- a TilePicker in use ------------------------ *)

\* picker is None before new; Some(the TilePicker) while it lives, with the
\* program names its init calls were given (compiled); and Dropped(...)
\* after its drop.
Dropped(compiled) == [some |-> FALSE, dropped |-> TRUE, compiled |-> compiled]

\* Camera::mat() is kept symbolic
Cameras == {"camera.mat()"}
MapSizes == {Size2(w, 1) : w \in 1..MaxMapW}

\* new is given the size of the window
PickerNew ==
    /\ picker = None
    /\ picker' = [some |-> TRUE, v |-> TilePicker_new(Size2(WinW, gl.winH)),
                  compiled |-> {}]
    /\ op' = [name |-> "TilePicker::new"]
    /\ calls' = <<>>
    /\ result' = None
    /\ UNCHANGED <<gl, mesh, made, pure>>

\* the window is resized to height h and the picker is told
SetWinSize(h) ==
    /\ picker.some
    /\ h # gl.winH
    /\ picker' = [picker EXCEPT !.v = set_win_size(@, Size2(WinW, h))]
    /\ gl' = [gl EXCEPT !.winH = h, !.fb = [q \in Pixels(h) |-> Stale]]
    /\ op' = [name |-> "TilePicker::set_win_size", h |-> h]
    /\ calls' = <<>>
    /\ result' = None
    /\ UNCHANGED <<mesh, made, pure>>

\* init is called on a picker that is not initialised yet (Uninitialized ->
\* Initialized)
PickerInit(map_size) ==
    /\ picker.some
    /\ picker.v.program = NoName
    /\ \E r \in {TilePicker_init(Ctx, picker.v, map_size)} :
          /\ gl' = r.ctx.gl
          /\ calls' = r.ctx.log
          /\ picker' = [picker EXCEPT !.v = r.picker,
                                      !.compiled = @ \cup {r.picker.program}]
    /\ op' = [name |-> "TilePicker::init", map_size |-> map_size]
    /\ result' = None
    /\ UNCHANGED <<mesh, made, pure>>

\* (of the undefined bytes, only a choice that is read makes a difference)
PickTile(camera, mouse_pos) ==
    /\ picker.some
    /\ \E raster \in Rasters(gl.winH, 3 * picker.v.map_mesh.len,
                             Held(gl, picker.v.map_mesh)),
          undef \in UndefBytes :
         \E r \in {pick_tile(Ctx, picker.v, camera, mouse_pos, raster, undef)} :
            /\ gl' = r.ctx.gl
            /\ calls' = r.ctx.log
            /\ result' = r.ret
            /\ (undef = r.data \/ undef = <<0, 0, 0, 0>>)
            /\ op' = [name |-> "TilePicker::pick_tile", camera |-> camera,
                      mouse_pos |-> mouse_pos, data |-> r.data]
    /\ UNCHANGED <<mesh, made, picker, pure>>

\* DeleteProgram calls made so far
RECURSIVE Deletes(_, _)
Deletes(g, q) == IF q < 0 THEN 0 ELSE g.progDel[q] + Deletes(g, q - 1)

PickerCleanup ==
    /\ picker.some
    /\ Deletes(gl, 2) < MaxCleanups
    /\ \E c \in {cleanup_opengl(Ctx, picker.v)} :
          gl' = c.gl /\ calls' = c.log
    /\ op' = [name |-> "TilePicker::cleanup_opengl"]
    /\ result' = None
    /\ UNCHANGED <<mesh, made, picker, pure>>

PickerDrop ==
    /\ picker.some
    /\ \E c \in {TilePicker_drop(Ctx, picker.v)} :
          gl' = c.gl /\ calls' = c.log
    /\ picker' = Dropped(picker.compiled)
    /\ op' = [name |-> "TilePicker::drop"]
    /\ result' = None
    /\ UNCHANGED <<mesh, made, pure>>

Next ==
    \/ PickerNew
    \/ \E h \in 1..MaxWinH : SetWinSize(h)
    \/ \E map_size \in MapSizes : PickerInit(map_size)
    \/ \E camera \in Cameras, x \in Columns, y \in 0..(gl.winH - 1) :
          PickTile(camera, Vec2(x, y))
    \/ PickerCleanup
    \/ PickerDrop
    \/ OtherComponent

Spec == Init /\ [][Next]_vars

(* ------------- build_hex_map_mesh and the encoding on their own --------- *)

PureBuild(map_size) ==
    /\ pure.stage = "idle"
    /\ pure' = [stage |-> "built", map_size |-> map_size,
                mesh |-> build_hex_map_mesh(map_size)]
    /\ UNCHANGED <<gl, mesh, made, picker, op, calls, result>>

\* a tile is encoded as build_hex_map_mesh encodes it
PureEncode(tile_pos) ==
    /\ pure.stage = "idle"
    /\ pure' = [stage |-> "encoded", tile |-> tile_pos,
                color |-> EncodeColor(tile_pos)]
    /\ UNCHANGED <<gl, mesh, made, picker, op, calls, result>>

\* the framebuffer holds the colour as bytes, and ReadPixels delivers them
PureFrame ==
    /\ pure.stage = "encoded"
    /\ pure' = [stage |-> "framed", tile |-> pure.tile,
                data |-> ColorBytes(pure.color, FloatOne)]
    /\ UNCHANGED <<gl, mesh, made, picker, op, calls, result>>

\* read_coords_from_image_buffer decides on the bytes
PureDecode ==
    /\ pure.stage = "framed"
    /\ pure' = [stage |-> "decoded", tile |-> pure.tile, data |-> pure.data,
                out |-> DecodePixel(pure.data)]
    /\ UNCHANGED <<gl, mesh, made, picker, op, calls, result>>

\* The red byte depends on x alone and the green byte on y alone, so the
\* tiles tried are those that give x every value and y every value.
EncodedWith(x) == {0, x, MaxCoord - x}

NextPure ==
    \/ \E w \in 0..MaxPureMap, h \in 0..MaxPureMap : PureBuild(Size2(w, h))
    \/ \E x \in 0..MaxCoord : \E y \in EncodedWith(x) : PureEncode(Vec2(x, y))
    \/ PureFrame
    \/ PureDecode

SpecPure == Init /\ [][NextPure]_vars

(* -------------------------------- claims -------------------------------- *)

\* the Mesh instance in use is the last one made
Current == made[Len(made)]
Destroyed(i) == i < Len(made) \/ ~mesh.some

\* C1: a destroyed Mesh, on which init was called once and set_color at most
\* once, has each buffer it was given deleted exactly once, and none of them
\* is live any more.
C1_DropReleasesEveryBuffer ==
    \A i \in 1..Len(made) :
        (Destroyed(i) /\ Cardinality(made[i].pos) = 1
                      /\ Cardinality(made[i].col) <= 1)
        => \A b \in made[i].pos \cup made[i].col :
               gl.bufDel[b] = 1 /\ b \notin gl.bufLive

\* C2: a tile (x, y) with x, y in 0..MaxCoord, encoded as a colour, stored as
\* bytes by the framebuffer and decoded from the bytes read back, is
\* Some((x, y)) again.
C2_EncodingRoundTrips ==
    pure.stage = "decoded" => pure.out = Some(pure.tile)

C2_Witness ==
    pure.stage = "decoded" /\ pure.tile = Vec2(MaxCoord, MaxCoord)

\* the pixel the last pick_tile read: the column and row given to ReadPixels
ReadAt == <<calls[Len(calls)].x, calls[Len(calls)].y>>
Picked == op.name = "TilePicker::pick_tile"
TileAtReadPixel == ReadAt \in DOMAIN gl.fb /\ gl.fb[ReadAt].src = "tri"
ClearAtReadPixel == ReadAt \in DOMAIN gl.fb /\ gl.fb[ReadAt].src = "clear"

\* C3: after pick_tile of an initialised picker, a read pixel covered by a tile's triangle has blue
\* byte 255 and the result is Some((byte0, byte1)); a read pixel left at the
\* clear colour has blue byte 0 and the result is None; and the result is None
\* exactly when no tile was rendered at the read pixel.
C3_NoneExactlyWhenNoTile ==
    (Picked /\ picker.v.program \in gl.progLive) =>
        /\ TileAtReadPixel =>
               /\ op.data[3] = ByteMax
               /\ result = Some(Vec2(op.data[1], op.data[2]))
        /\ ClearAtReadPixel => (op.data[3] = 0 /\ result = None)
        /\ (result = None) <=> ~TileAtReadPixel

\* C4: the calls of one pick_tile are, in this order: UseProgram of the
\* picker's program, the camera's matrix uploaded to the cached uniform, the
\* clear colour set to black, one Clear of colour and depth, the draw of the
\* mesh, one ReadPixels; and the pixel read, when it is a pixel of the window,
\* holds nothing older than this call's clear.
C4_PickOrder ==
    Picked =>
        LET n == Len(calls)
        IN /\ n >= 6
           /\ calls[1] = [op |-> "UseProgram", id |-> picker.v.program]
           /\ calls[2].op = "UniformMatrix4fv"
           /\ calls[2].location = picker.v.mat_id
           /\ calls[2].mat = op.camera
           /\ calls[3].op = "ClearColor"
           /\ calls[3].color.r = FloatZero /\ calls[3].color.g = FloatZero
           /\ calls[3].color.b = FloatZero
           /\ calls[4].op = "Clear"
           /\ calls[4].mask = {"COLOR_BUFFER_BIT", "DEPTH_BUFFER_BIT"}
           /\ calls[n - 1].op = "DrawArrays"
           /\ calls[n].op = "ReadPixels"
           /\ \A i \in 1..n :
                /\ calls[i].op = "Clear" => i = 4
                /\ calls[i].op = "DrawArrays" => i = n - 1
                /\ calls[i].op = "ReadPixels" => i = n
           /\ ReadAt \in DOMAIN gl.fb => gl.fb[ReadAt].src # "stale"

C4_Witness ==
    Picked /\ TileAtReadPixel /\ result.some

\* C5: Mesh::draw of a Mesh initialised with V vertices ends in a draw of
\* triangles that starts at vertex 0 and covers exactly V vertices.
C5_DrawCoversUploadedVertices ==
    (op.name = "Mesh::draw" /\ mesh.some /\ Current.pos # {})
    => LET k == calls[Len(calls)]
       IN /\ k.op = "DrawArrays"
          /\ k.mode = "TRIANGLES"
          /\ k.first = 0
          /\ k.count = Len(gl.bufData[mesh.v.vbo])

\* C6: for a map of T tiles build_hex_map_mesh gives 18 T vertices and 18 T
\* colours; triangle n of a tile is centre + corner(n), centre + corner(n+1),
\* centre; the 18 colours of a tile are all (x/255, y/255, 1.0); and two
\* different tiles have different colours.
C6_MeshShape ==
    pure.stage = "built" =>
        LET tiles == MapPosIter(pure.map_size)
            T == pure.map_size.w * pure.map_size.h
            v == pure.mesh.v_data
            c == pure.mesh.c_data
            per == 3 * HexEdges
        IN /\ Len(tiles) = T
           /\ Len(v) = per * T
           /\ Len(c) = per * T
           /\ \A i \in 1..T : \A n \in 0..(HexEdges - 1) :
                LET base == per * (i - 1) + 3 * n
                    centre == map_pos_to_world_pos(tiles[i])
                IN /\ v[base + 1] = VecAdd(centre, index_to_hex_vertex(n))
                   /\ v[base + 2] = VecAdd(centre, index_to_hex_vertex(n + 1))
                   /\ v[base + 3] = VecAdd(centre, Vec3Zero)
           /\ \A i \in 1..T : \A j \in 1..per :
                c[per * (i - 1) + j] =
                    Color3(FloatDiv(tiles[i].x, ByteMax),
                           FloatDiv(tiles[i].y, ByteMax), FloatOne)
           /\ \A i \in 1..T : \A j \in 1..T :
                i # j => c[per * (i - 1) + 1] # c[per * (j - 1) + 1]

C6_Witness ==
    /\ pure.stage = "built"
    /\ pure.map_size = Size2(MaxPureMap, MaxPureMap)

\* C7: after one or more init calls on a Mesh, exactly one of the position
\* buffers it was given is live, and every earlier one was deleted once.
C7_ReinitReleasesOld ==
    (mesh.some /\ Current.pos # {})
    => /\ Cardinality(Current.pos \cap gl.bufLive) = 1
       /\ \A b \in Current.pos \ {mesh.v.vbo} : gl.bufDel[b] = 1

\* C8: pick_tile ends in the one ReadPixels call it makes: a 1 x 1 block of
\* RGBA unsigned bytes at column mouse_pos.x and row (window height) -
\* mouse_pos.y, the height being the one last given to new or set_win_size.
C8_ReadsOnePixel ==
    Picked =>
        LET k == calls[Len(calls)]
        IN /\ k.op = "ReadPixels"
           /\ k.x = op.mouse_pos.x
           /\ k.y = gl.winH - op.mouse_pos.y
           /\ k.width = 1 /\ k.height = 1
           /\ k.format = "RGBA" /\ k.type = "UNSIGNED_BYTE"
           /\ Len(op.data) = 4
           /\ \A i \in 1..Len(calls) :
                calls[i].op = "ReadPixels" => i = Len(calls)

C8_Witness ==
    Picked /\ gl.winH # MaxWinH /\ picker.v.win_size.h = gl.winH /\ op.mouse_pos.x > 0

\* C9: a program that init compiled is deleted at most once, and exactly once
\* by the time the picker is dropped; no other program name, such as the
\* placeholder 0 of a picker never initialised, is ever deleted.
C9_ProgramDeletedExactlyOnce ==
    LET compiled == IF picker = None THEN {} ELSE picker.compiled
    IN /\ \A q \in compiled : gl.progDel[q] <= 1
       /\ (picker # None /\ ~picker.some)
          => \A q \in compiled : gl.progDel[q] = 1 /\ q \notin gl.progLive
       /\ \A q \in ProgNames \ compiled : gl.progDel[q] = 0

\* the call before call i that is not a query of a location
Queries == {"GetAttribLocation", "GetUniformLocation"}
Before(i) ==
    LET js == {j \in 1..(i - 1) : calls[j].op \notin Queries}
    IN IF js = {} THEN 0 ELSE CHOOSE j \in js : \A l \in js : l <= j

\* C10: in Mesh::init, Mesh::set_color, Mesh::draw, TilePicker::init and
\* pick_tile, every buffer upload and every vertex_attrib_pointer call comes
\* directly after the bind of a buffer, and the uniform upload and the draw
\* of pick_tile come after use_program of the picker's program.
C10_BindBeforeUse ==
    /\ \A i \in 1..Len(calls) :
          calls[i].op \in {"BufferData", "VertexAttribPointer"}
          => (Before(i) > 0 /\ calls[Before(i)].op = "BindBuffer")
    /\ Picked =>
          \A i \in 1..Len(calls) :
             calls[i].op \in {"UniformMatrix4fv", "DrawArrays"}
             => \E j \in 1..(i - 1) :
                   calls[j] = [op |-> "UseProgram", id |-> picker.v.program]

\* C11: for a window of height h and a mouse position with 0 <= y <= h - 1,
\* the row pick_tile gives to ReadPixels is one of the window's rows 0..h-1,
\* and it is the row of the pixel under the cursor counted from the bottom,
\* h - 1 - y.
C11_ReadRowInsideWindow ==
    (Picked /\ op.mouse_pos.y \in 0..(gl.winH - 1)) =>
        /\ calls[Len(calls)].op = "ReadPixels"
        /\ calls[Len(calls)].y \in 0..(gl.winH - 1)
        /\ calls[Len(calls)].y = gl.winH - 1 - op.mouse_pos.y

====
